---- MODULE Spec2Model ----
(***************************************************************************)
(* Adversarial search agents for Pacman: minimax.py (plain minimax with    *)
(* alpha-beta pruning and a visited table), hminimax0.py (heuristic        *)
(* minimax with alpha-beta pruning, no visited table) and hminimax1.py     *)
(* (heuristic minimax with alpha-beta pruning and a visited table).        *)
(*                                                                         *)
(* The recursive search is modelled as a machine with an explicit call     *)
(* stack: one frame per active call of minimax_aux / hminimax_aux.  The    *)
(* game-state provider (pacman_module) is external: a game is a finite     *)
(* graph of snapshots, each with the fields the agents read and the two    *)
(* successor enumerations.                                                 *)
(*                                                                         *)
(* hminimax0's eval_function works in halves (1 / 2 * ...): Eval0 is twice *)
(* the code's value, which keeps every comparison between two evaluations. *)
(***************************************************************************)
EXTENDS Integers, Sequences, FiniteSets, TLC

VARIABLES
    engine,             \* which agent module is running
    game,               \* the provider's snapshot graph (never changes)
    pc,                 \* "idle": between get_action calls; "search": inside one
    stack,              \* call stack of minimax_aux / hminimax_aux frames
    visited,            \* the visited dictionary of the running search
    ret,                \* the [value, action] list returned by the last call that returned
    moves,              \* self.moves
    previousKeyStates,  \* self.previousKeyStates (hminimax0)
    current_score,      \* self.current_score (hminimax0)
    calls,              \* number of get_action calls completed
    budget,             \* number of get_action calls the driver makes
    root,               \* the snapshot given to the running / last get_action
    returned,           \* what the last get_action returned
    history,            \* per completed get_action: snapshot, agent fields at search start, search result
    lastStep,           \* what the last step of the search did (observation only)
    prunes              \* early returns taken by the running search (observation only)

vars == <<engine, game, pc, stack, visited, ret, moves, previousKeyStates,
          current_score, calls, budget, root, returned, history, lastStep, prunes>>

----------------------------------------------------------------------------
(* Bounds of the model *)

\* scores of the snapshots below the root range over 0..MaxScore
MaxScore == 1
\* number of get_action calls in one behaviour
MaxCalls == 2
\* the grid of the chain games has the columns 0..MaxX
MaxX == 3

----------------------------------------------------------------------------
(* Values: Python floats with float('inf') and float('-inf') *)

PosInf == [inf |-> 1, n |-> 0]
NegInf == [inf |-> -1, n |-> 0]
Fin(n) == [inf |-> 0, n |-> n]

\* a > b
Gt(a, b) == \/ a.inf > b.inf
            \/ a.inf = 0 /\ b.inf = 0 /\ a.n > b.n
\* a < b
Lt(a, b) == Gt(b, a)
\* a >= b
Ge(a, b) == Gt(a, b) \/ a = b
\* a <= b
Le(a, b) == Ge(b, a)
\* Python's max(a, b) and min(a, b)
PyMax(a, b) == IF Gt(b, a) THEN b ELSE a
PyMin(a, b) == IF Lt(b, a) THEN b ELSE a

None == "None"
STOP == "Stop"

----------------------------------------------------------------------------
(* The games: snapshot graphs the provider can hand to the agent.          *)
(*                                                                         *)
(*        0              root, pacman to move                              *)
(*      / | \                                                              *)
(*     1  2  3           after pacman's move (1 is a final state)          *)
(*       / \  \                                                           *)
(*      4   5  6         after the ghost's move                            *)
(*         / \  :                                                          *)
(*        7   8  3       after pacman's second move (5 may have no move,   *)
(*                       6 may have a move back to 3)                      *)
(*                                                                         *)
(* Snapshots 1, 4, 5, 6, 7, 8 take    their fields from three kinds and a     *)
(* score; two snapshots of the same kind have the same key.                *)

Snapshot(pac, ghost, gdir, food, score, win, lose) ==
    [pac |-> pac, ghost |-> ghost, gdir |-> gdir, food |-> food, score |-> score,
     win |-> win, lose |-> lose, pacSucc |-> <<>>, ghostSucc |-> <<>>]

Kinds == {"win", "lose", "near"}

OfKind(kind, score) ==
    CASE kind = "win"  -> Snapshot(<<0, 0>>, <<3, 0>>, "East", {}, score, TRUE, FALSE)
      [] kind = "lose" -> Snapshot(<<1, 0>>, <<1, 0>>, "West", {<<0, 0>>}, score, FALSE, TRUE)
      [] kind = "near" -> Snapshot(<<0, 0>>, <<1, 0>>, "North", {<<3, 0>>}, score, FALSE, FALSE)

Scores == 0..MaxScore
Choices == [kind : Kinds, score : Scores]
Free == {1, 4, 5, 6, 7, 8}
Nodes == 0..8

\* A tree game g is the choice g.c for the free snapshots, g.deep: 5 has the
\* moves to 7 and 8, and g.back: 6 has the move back to 3.
Game(c, deep, back) == [form |-> "tree", c |-> c, deep |-> deep, back |-> back]

RootSnapshot == Snapshot(<<1, 0>>, <<2, 0>>, "West", {<<0, 0>>}, 0, FALSE, FALSE)

TreeSnap(g, n) ==
        CASE n = 0 -> [RootSnapshot
                         EXCEPT !.pacSucc = <<<<1, "West">>, <<2, "Stop">>, <<3, "North">>>>]
          [] n = 2 -> [RootSnapshot
                         EXCEPT !.ghostSucc = <<<<4, "West">>, <<5, "North">>>>]
          [] n = 3 -> [Snapshot(<<2, 1>>, <<2, 0>>, "West", {<<0, 0>>}, 0, FALSE, FALSE)
                         EXCEPT !.ghostSucc = <<<<6, "North">>>>]
          [] n = 5 -> [OfKind(g.c[n].kind, g.c[n].score)
                         EXCEPT !.pacSucc = IF g.deep THEN <<<<7, "East">>, <<8, "Stop">>>>
                                            ELSE <<>>]
          [] n = 6 -> [OfKind(g.c[n].kind, g.c[n].score)
                         EXCEPT !.pacSucc = IF g.back THEN <<<<3, "North">>>> ELSE <<>>]
          [] OTHER -> OfKind(g.c[n].kind, g.c[n].score)

(* The chain games: 0 -> 1 -> 2, one move each, where 1 (ghost to move,    *)
(* depth 1) and 2 (pacman to move, depth 2) are any snapshots of a grid of *)
(* (MaxX + 1) x 2 cells.                                                   *)

PacCells == {<<0, 0>>, <<1, 0>>, <<1, 1>>}
GhostCells == (0..MaxX) \X (0..1)
Dirs == {"North", "South", "East", "West", "Stop"}
Foods == {{}, {<<0, 0>>}, {<<MaxX, 1>>}, {<<0, 0>>, <<MaxX, 1>>}}
AnySnapshot ==
    {Snapshot(pac, ghost, gdir, food, score, st = "win", st = "lose") :
        pac \in PacCells, ghost \in GhostCells, gdir \in Dirs, food \in Foods,
        score \in Scores, st \in {"none", "win", "lose"}}

Chain(p, q) == [form |-> "chain", p |-> p, q |-> q]

ChainSnap(g, n) ==
        CASE n = 0 -> [RootSnapshot EXCEPT !.pacSucc = <<<<1, "West">>>>]
          [] n = 1 -> [g.p EXCEPT !.ghostSucc = <<<<2, "North">>>>]
          [] OTHER -> g.q

\* snapshot n of game g
Snap(g, n) == IF g.form = "chain" THEN ChainSnap(g, n) ELSE TreeSnap(g, n)

\* the snapshots the driver passes to get_action
RootsOf(g) == IF g.form = "chain" THEN {0} ELSE {0, 6}

----------------------------------------------------------------------------
(* The provider's interface, read off a snapshot s of the graph g *)

Abs(x) == IF x < 0 THEN -x ELSE x
manhattanDistance(a, b) == Abs(a[1] - b[1]) + Abs(a[2] - b[2])

SetMin(S) == CHOOSE x \in S : \A y \in S : x <= y
SetMax(S) == CHOOSE x \in S : \A y \in S : x >= y
\* sum over the food grid's true cells of their distance to pos
RECURSIVE FoodDistSum(_, _)
FoodDistSum(F, pos) ==
    IF F = {} THEN 0
    ELSE LET c == CHOOSE y \in F : TRUE
         IN manhattanDistance(c, pos) + FoodDistSum(F \ {c}, pos)

generatePacmanSuccessors(g, s) == Snap(g, s).pacSucc
generateGhostSuccessors(g, s) == Snap(g, s).ghostSucc
getLegalActions(g, s) == [i \in 1..Len(Snap(g, s).pacSucc) |-> Snap(g, s).pacSucc[i][2]]

\* key(state): minimax.py, hminimax1.py
key(g, s) == <<Snap(g, s).pac, Snap(g, s).food, Snap(g, s).ghost, Snap(g, s).gdir>>

\* the (position, food) pair hminimax0 keeps in previousKeyStates
PosFood(g, s) == <<Snap(g, s).pac, Snap(g, s).food>>

----------------------------------------------------------------------------
(* minimax.py *)

\* terminal(state)
terminal(g, s) == Snap(g, s).lose \/ Snap(g, s).win

\* utility_function(state): state.isWin(), a bool that compares as 1 / 0
utility_function(g, s) == IF Snap(g, s).win THEN 1 ELSE 0

----------------------------------------------------------------------------
(* hminimax0.py *)

\* (mutant) one threshold for both roles
DistanceGate_OneThreshold(dist, is_pacman) == dist > 2
\* the "pacman is too far from the ghost" gate of both cutoff functions
DistanceGate(dist, is_pacman) == IF is_pacman THEN dist > 2 ELSE dist >= 2

\* PacmanAgent.eval_function, times two
Eval0(g, s, pks, cs) ==
    LET pac_pos == Snap(g, s).pac
        pac_ghost_dist == manhattanDistance(pac_pos, Snap(g, s).ghost)
        dists == {manhattanDistance(c, pac_pos) : c \in Snap(g, s).food}
        num_food == Cardinality(Snap(g, s).food)
        min_pac_food_dist == IF num_food = 0 THEN 0 ELSE SetMin(dists)
        max_pac_food_dist == IF num_food = 0 THEN 0 ELSE SetMax(dists)
        already_visited_state_penalty == IF PosFood(g, s) \in pks THEN 400 ELSE 0
    IN 2 * (Snap(g, s).score - cs - already_visited_state_penalty)
       + pac_ghost_dist - 2 * min_pac_food_dist - 4 * num_food
       + max_pac_food_dist + Len(getLegalActions(g, s))

\* PacmanAgent.cutoff
Cutoff0(g, s, depth, is_pacman) ==
    IF depth > 0
    THEN LET pac_pos == Snap(g, s).pac
             ghost_pos == Snap(g, s).ghost
             pac_ghost_dist == manhattanDistance(pac_pos, ghost_pos)
             x_diff == ghost_pos[1] - pac_pos[1]
             y_diff == ghost_pos[2] - pac_pos[2]
             ghost_dir == Snap(g, s).gdir
             horizontal_dir == IF x_diff > 0 THEN "East"
                               ELSE IF x_diff < 0 THEN "West" ELSE ""
             vertical_dir == IF y_diff > 0 THEN "North"
                             ELSE IF y_diff < 0 THEN "South" ELSE ""
         IN IF Snap(g, s).win \/ Snap(g, s).lose THEN TRUE
            ELSE IF DistanceGate(pac_ghost_dist, is_pacman) THEN TRUE
            ELSE vertical_dir = ghost_dir \/ horizontal_dir = ghost_dir
    ELSE FALSE

----------------------------------------------------------------------------
(* hminimax1.py *)

\* eval_function
Eval1(g, s) ==
    LET pac_pos == Snap(g, s).pac
        dists == {manhattanDistance(c, pac_pos) : c \in Snap(g, s).food}
        num_food == Cardinality(Snap(g, s).food)
        min_pac_food_dist == IF num_food = 0 THEN 0 ELSE SetMin(dists)
    IN Snap(g, s).score - 4 * min_pac_food_dist - 10 * num_food

\* (mutant) a final state is cut off at any depth, the root included
Cutoff1_FinalAtRoot(g, s, depth, is_pacman) ==
    IF Snap(g, s).win \/ Snap(g, s).lose THEN TRUE
    ELSE IF depth > 0
    THEN LET pac_pos == Snap(g, s).pac
             ghost_pos == Snap(g, s).ghost
         IN IF DistanceGate(manhattanDistance(pac_pos, ghost_pos), is_pacman) THEN TRUE
            ELSE FoodDistSum(Snap(g, s).food, pac_pos)
                    <= FoodDistSum(Snap(g, s).food, ghost_pos) /\ is_pacman
    ELSE FALSE
\* cutoff
Cutoff1(g, s, depth, is_pacman) ==
    IF depth > 0
    THEN LET pac_pos == Snap(g, s).pac
             ghost_pos == Snap(g, s).ghost
             pac_food_dist == FoodDistSum(Snap(g, s).food, pac_pos)
             ghost_food_dist == FoodDistSum(Snap(g, s).food, ghost_pos)
         IN IF Snap(g, s).win \/ Snap(g, s).lose THEN TRUE
            ELSE IF DistanceGate(manhattanDistance(pac_pos, ghost_pos), is_pacman) THEN TRUE
            ELSE pac_food_dist <= ghost_food_dist /\ is_pacman
    ELSE FALSE

----------------------------------------------------------------------------
(* What the three search functions share *)

Engines == {"minimax", "hminimax0", "hminimax1"}

\* minimax_aux and hminimax1.hminimax_aux take a visited dictionary
UsesVisited(e) == e # "hminimax0"

\* the test at the head of the search function
Stops(e, g, s, depth, is_pacman) ==
    CASE e = "minimax"   -> terminal(g, s)
      [] e = "hminimax0" -> Cutoff0(g, s, depth, is_pacman)
      [] e = "hminimax1" -> Cutoff1(g, s, depth, is_pacman)

\* the value returned when that test fires
LeafValue(e, g, s, pks, cs) ==
    CASE e = "minimax"   -> Fin(utility_function(g, s))
      [] e = "hminimax0" -> Fin(Eval0(g, s, pks, cs))
      [] e = "hminimax1" -> Fin(Eval1(g, s))

\* (mutant) an equal score counts as a better state
BetterState_OrEqual(score, stored) == score >= stored
\* score > visited[next_key]
BetterState(score, stored) == score > stored

\* the visited dictionary is the set of its <<key, score>> items
Keys(vis) == {p[1] : p \in vis}
Stored(vis, k) == (CHOOSE p \in vis : p[1] = k)[2]

\* next_key not in visited.keys() or better_state
Admissible(e, vis, k, score) ==
    IF ~UsesVisited(e) THEN TRUE
    ELSE IF k \notin Keys(vis) THEN TRUE
    ELSE BetterState(score, Stored(vis, k))

\* visited[next_key] = score
Record(e, vis, k, score) ==
    IF UsesVisited(e)
    THEN {p \in vis : p[1] # k} \cup {<<k, score>>}
    ELSE vis

\* (mutant) a value equal to the best one replaces it
ImprovesMax_OrEqual(value, max_value) == Ge(value, max_value) /\ value # PosInf
\* (mutant) the maximiser's guard against float('inf') dropped
ImprovesMax_NoGuard(value, max_value) == Gt(value, max_value)
\* value > max_value and value != float('inf')
ImprovesMax(value, max_value) == Gt(value, max_value) /\ value # PosInf
\* value < min_value and value != float('-inf')
ImprovesMin(value, min_value) == Lt(value, min_value) /\ value # NegInf
\* (mutant) the beta cut needs a strictly greater value
BetaCut_Strict(max_value, beta) == Gt(max_value, beta)
\* max_value >= beta
BetaCut(max_value, beta) == Ge(max_value, beta)
\* (mutant) the comparison of the alpha cut reversed
AlphaCut_Reversed(min_value, alpha) == Ge(min_value, alpha)
\* min_value <= alpha
AlphaCut(min_value, alpha) == Le(min_value, alpha)

----------------------------------------------------------------------------
(* The search as a machine: one frame per active call of the search       *)
(* function.  A frame is at "enter" (the head test), at "loop" (the head   *)
(* of the for loop, i the index of the next successor) or at "wait" (its   *)
(* recursive call on successor i is running or has just returned).         *)

Frame(s, alpha, beta, is_pacman, depth) ==
    [state |-> s, alpha |-> alpha, beta |-> beta, is_pacman |-> is_pacman,
     depth |-> depth, i |-> 1,
     value |-> IF is_pacman THEN NegInf ELSE PosInf,   \* max_value / min_value
     best_action |-> None, pc |-> "enter"]

Top == stack[Len(stack)]
Pop(st) == SubSeq(st, 1, Len(st) - 1)
SetTop(st, f) == [st EXCEPT ![Len(st)] = f]

Successors(g, f) == IF f.is_pacman THEN generatePacmanSuccessors(g, f.state)
                    ELSE generateGhostSuccessors(g, f.state)

EmptyDict == {}

\* the agent's fields, the game and the call counter are untouched by the search
SearchFrame == UNCHANGED <<engine, game, pc, moves, previousKeyStates, current_score,
                           calls, budget, root, returned, history>>

\* (mutant) one dictionary shared by all calls of minimax / hminimax
TableOfCall_Shared == visited
\* the dictionary minimax / hminimax passes to the search
TableOfCall == EmptyDict

\* (mutant) the last element read, not removed
ListPop_Peek(ms) == ms
\* list.pop(): the list without its last element
ListPop(ms) == Pop(ms)

\* get_action(state), up to the call of minimax / hminimax
GetAction(s) ==
    /\ pc = "idle"
    /\ calls < budget
    /\ root' = s
    /\ previousKeyStates' = IF engine = "hminimax0"
                            THEN previousKeyStates \cup {PosFood(game, s)}
                            ELSE previousKeyStates
    /\ IF moves = <<>>
       THEN /\ current_score' = IF engine = "hminimax0" THEN Snap(game, s).score
                                ELSE current_score
            /\ stack' = <<Frame(s, NegInf, PosInf, TRUE, 0)>>
            /\ visited' = TableOfCall
            /\ pc' = "search"
            /\ lastStep' = [op |-> "call", state |-> s]
            /\ prunes' = 0
       ELSE /\ pc' = "pop"
            /\ lastStep' = [op |-> "cached", state |-> s]
            /\ UNCHANGED <<current_score, stack, visited, prunes>>
    /\ UNCHANGED <<engine, game, budget, moves, calls, returned, history, ret>>

\* a call returns [value, action] to its caller
Return(value, action) ==
    /\ stack' = Pop(stack)
    /\ ret' = [value |-> value, action |-> action]

\* the head of the search function: cutoff / terminal test
Enter ==
    /\ pc = "search" /\ stack # <<>> /\ Top.pc = "enter"
    /\ IF Stops(engine, game, Top.state, Top.depth, Top.is_pacman)
       THEN /\ Return(LeafValue(engine, game, Top.state, previousKeyStates, current_score), None)
            /\ lastStep' = [op |-> "leaf", state |-> Top.state, depth |-> Top.depth,
                            is_pacman |-> Top.is_pacman]
       ELSE /\ stack' = SetTop(stack, [Top EXCEPT !.pc = "loop"])
            /\ lastStep' = [op |-> "expand", state |-> Top.state]
            /\ UNCHANGED ret
    /\ UNCHANGED <<visited, prunes>>
    /\ SearchFrame

\* one turn of the for loop whose successor is not admissible
Skip ==
    /\ pc = "search" /\ stack # <<>> /\ Top.pc = "loop"
    /\ Top.i <= Len(Successors(game, Top))
    /\ LET next_state == Successors(game, Top)[Top.i][1]
           next_key == key(game, next_state)
           score == Snap(game, next_state).score
       IN /\ ~Admissible(engine, visited, next_key, score)
          /\ stack' = SetTop(stack, [Top EXCEPT !.i = @ + 1])
          /\ lastStep' = [op |-> "skip", state |-> next_state]
    /\ UNCHANGED <<visited, ret, prunes>>
    /\ SearchFrame

\* every recursive call follows an assignment visited[next_key] = score that
\* adds a key or raises its score, so a chain of calls that are all still
\* open holds the top-level call and at most one call per key and score; a
\* chain that reaches StackLimit frames is a recursion that does not end
StackLimit == Cardinality(Nodes) * (MaxScore + 1) + 1

\* one turn of the for loop whose successor is admissible: record it, recurse
Recurse ==
    /\ pc = "search" /\ stack # <<>> /\ Top.pc = "loop"
    /\ Len(stack) < StackLimit
    /\ Top.i <= Len(Successors(game, Top))
    /\ LET next_state == Successors(game, Top)[Top.i][1]
           next_key == key(game, next_state)
           score == Snap(game, next_state).score
       IN /\ Admissible(engine, visited, next_key, score)
          /\ visited' = Record(engine, visited, next_key, score)
          /\ stack' = Append(SetTop(stack, [Top EXCEPT !.pc = "wait"]),
                             Frame(next_state, Top.alpha, Top.beta, ~Top.is_pacman,
                                   Top.depth + 1))
          /\ lastStep' = [op |-> "recurse", state |-> next_state,
                          known |-> next_key \in Keys(visited)]
    /\ UNCHANGED <<ret, prunes>>
    /\ SearchFrame

\* the recursive call has returned: the rest of the loop body
Resume ==
    /\ pc = "search" /\ stack # <<>> /\ Top.pc = "wait"
    /\ LET value == ret.value
           action == Successors(game, Top)[Top.i][2]
           improves == IF Top.is_pacman THEN ImprovesMax(value, Top.value)
                       ELSE ImprovesMin(value, Top.value)
           best == IF improves THEN value ELSE Top.value
           \* only the maximiser assigns best_action
           best_action == IF improves /\ Top.is_pacman THEN action ELSE Top.best_action
           cut == IF Top.is_pacman THEN BetaCut(best, Top.beta)
                  ELSE AlphaCut(best, Top.alpha)
       IN IF cut
          THEN /\ Return(best, best_action)
               /\ lastStep' = [op |-> "prune", state |-> Top.state,
                               tie |-> value = Top.value]
               /\ prunes' = prunes + 1
          ELSE /\ stack' = SetTop(stack,
                       [Top EXCEPT !.value = best, !.best_action = best_action,
                                   !.alpha = IF Top.is_pacman THEN PyMax(@, best) ELSE @,
                                   !.beta = IF Top.is_pacman THEN @ ELSE PyMin(@, best),
                                   !.i = @ + 1, !.pc = "loop"])
               /\ lastStep' = [op |-> "resume", state |-> Top.state,
                               tie |-> value = Top.value]
               /\ UNCHANGED <<ret, prunes>>
    /\ UNCHANGED visited
    /\ SearchFrame

\* the for loop is over
Exhaust ==
    /\ pc = "search" /\ stack # <<>> /\ Top.pc = "loop"
    /\ Top.i > Len(Successors(game, Top))
    /\ Return(Top.value, Top.best_action)
    /\ lastStep' = [op |-> "exhaust", state |-> Top.state]
    /\ UNCHANGED <<visited, prunes>>
    /\ SearchFrame

\* minimax / hminimax has returned: self.moves.append(...)
StoreMove ==
    /\ pc = "search" /\ stack = <<>>
    /\ moves' = Append(moves, ret.action)
    /\ pc' = "pop"
    /\ lastStep' = [op |-> "store", state |-> root]
    /\ UNCHANGED <<engine, game, budget, stack, visited, ret, previousKeyStates,
                   current_score, root, prunes, calls, returned, history>>

\* the try block of get_action: pop the move and return it
ReturnMove ==
    /\ pc = "pop"
    /\ IF moves # <<>>
       THEN /\ returned' = moves[Len(moves)]
            /\ moves' = ListPop(moves)
       ELSE /\ returned' = STOP                     \* except IndexError
            /\ UNCHANGED moves
    /\ history' = Append(history,
                         [root |-> root, pks |-> previousKeyStates, cs |-> current_score,
                          searched |-> lastStep.op = "store",
                          value |-> ret.value, move |-> ret.action, returned |-> returned'])
    /\ calls' = calls + 1
    /\ pc' = "idle"
    /\ lastStep' = [op |-> "finish", state |-> root]
    /\ UNCHANGED <<engine, game, budget, stack, visited, ret, previousKeyStates,
                   current_score, root, prunes>>

----------------------------------------------------------------------------
(* The initial states *)

\* the choices that make a game: 1 is a final state; a snapshot with moves is
\* not a final state; 7 and 8 exist only below 5 and have score 0; without a
\* visited table the tree has to be finite
IsGame(e, c, deep, back) ==
    /\ c[1].kind # "near" /\ c[1].score = 0
    /\ deep => c[5].kind = "near"
    /\ back => c[6].kind = "near"
    /\ ~deep => c[7] = c[1] /\ c[8] = c[1]
    /\ c[7].score = c[8].score
    /\ back => UsesVisited(e)

\* the agent after __init__, about to play g for n calls of get_action
Start(g, n) ==
    /\ game = g
    /\ budget = n
    /\ pc = "idle"
    /\ stack = <<>>
    /\ visited = EmptyDict
    /\ ret = [value |-> NegInf, action |-> None]
    /\ moves = <<>>
    /\ previousKeyStates = {}
    /\ current_score = 0
    /\ calls = 0
    /\ root = 0
    /\ returned = None
    /\ history = <<>>
    /\ lastStep = [op |-> "init", state |-> 0]
    /\ prunes = 0

\* one decision on any game
Init ==
    /\ engine \in Engines
    /\ \E c \in [Free -> Choices], deep \in BOOLEAN, back \in BOOLEAN :
          /\ IsGame(engine, c, deep, back)
          /\ Start(Game(c, deep, back), 1)

\* MaxCalls decisions on the games whose snapshots 4, 5, 6 only differ in kind
InitCalls ==
    /\ engine \in Engines
    /\ \E c \in [Free -> Choices], back \in BOOLEAN :
          /\ IsGame(engine, c, FALSE, back)
          /\ \A n \in Free : c[n].score = 0
          /\ Start(Game(c, FALSE, back), MaxCalls)

\* one decision on any chain game, by a heuristic agent
InitCutoff ==
    /\ engine \in {"hminimax0", "hminimax1"}
    /\ \E s \in AnySnapshot :
          \/ Start(Chain(s, OfKind("lose", 0)), 1)
          \/ Start(Chain(RootSnapshot, s), 1)

Next ==
    \/ \E s \in RootsOf(game) : GetAction(s)
    \/ Enter
    \/ Skip
    \/ Recurse
    \/ Resume
    \/ Exhaust
    \/ StoreMove
    \/ ReturnMove

Spec == Init /\ [][Next]_vars

SpecCalls == InitCalls /\ [][Next]_vars

SpecCutoff == InitCutoff /\ [][Next]_vars

\* one decision of a heuristic agent on any chain game, or on a tree game
\* without snapshots below 5, whose snapshot 6 may be a final state passed to
\* get_action
InitRoot ==
    \/ InitCutoff
    \/ /\ engine \in {"hminimax0", "hminimax1"}
       /\ \E c \in [Free -> Choices], back \in BOOLEAN :
             /\ IsGame(engine, c, FALSE, back)
             /\ Start(Game(c, FALSE, back), 1)

SpecRoot == InitRoot /\ [][Next]_vars

\* one decision of the plain engine on the games without snapshots below 5,
\* with and without the cycle 6 -> 3 -> 6; the interpreter runs the sequential
\* program on: a step that can be taken is taken
InitMinimax ==
    /\ engine = "minimax"
    /\ \E c \in [Free -> Choices], back \in BOOLEAN :
          /\ IsGame(engine, c, FALSE, back)
          /\ Start(Game(c, FALSE, back), 1)

SpecMinimax == InitMinimax /\ [][Next]_vars /\ WF_vars(Next)

----------------------------------------------------------------------------
(* The search without its two early returns: the same head test, the same  *)
(* visited table, the same guards on the returned value, every admissible  *)
(* successor explored.  RefSearch returns the value, the action and the    *)
(* visited table the call leaves behind.                                   *)

RECURSIVE RefSearch(_, _, _, _, _, _, _, _)
RECURSIVE RefLoop(_, _, _, _, _, _, _)

RefSearch(e, g, s, is_pacman, depth, vis, pks, cs) ==
    IF Stops(e, g, s, depth, is_pacman)
    THEN [value |-> LeafValue(e, g, s, pks, cs), action |-> None, vis |-> vis]
    ELSE RefLoop(e, g, [state |-> s, is_pacman |-> is_pacman, depth |-> depth], 1,
                 [value |-> IF is_pacman THEN NegInf ELSE PosInf, action |-> None,
                  vis |-> vis], pks, cs)

\* the for loop of frame f from successor i on, acc the running result
RefLoop(e, g, f, i, acc, pks, cs) ==
    IF i > Len(Successors(g, f)) THEN acc
    ELSE LET next_state == Successors(g, f)[i][1]
             action == Successors(g, f)[i][2]
             next_key == key(g, next_state)
             score == Snap(g, next_state).score
         IN IF ~Admissible(e, acc.vis, next_key, score)
            THEN RefLoop(e, g, f, i + 1, acc, pks, cs)
            ELSE LET r == RefSearch(e, g, next_state, ~f.is_pacman, f.depth + 1,
                                    Record(e, acc.vis, next_key, score), pks, cs)
                     improves == IF f.is_pacman THEN ImprovesMax(r.value, acc.value)
                                 ELSE ImprovesMin(r.value, acc.value)
                 IN RefLoop(e, g, f, i + 1,
                            [value |-> IF improves THEN r.value ELSE acc.value,
                             action |-> IF improves /\ f.is_pacman THEN action
                                        ELSE acc.action,
                             vis |-> r.vis], pks, cs)

\* the last completed decision, and the unpruned search of the same snapshot
Done == pc = "idle" /\ history # <<>>
Last == history[Len(history)]
RefLast == RefSearch(engine, game, Last.root, TRUE, 0, EmptyDict, Last.pks, Last.cs)

----------------------------------------------------------------------------
(* Claims *)

\* C1: in hminimax0 (no visited table) the value of the top-level call
\* hminimax_aux(state, -inf, +inf, True, 0) equals the value of the same search
\* without the two early returns.
C1_PruningKeepsValue ==
    (engine = "hminimax0" /\ Done) => Last.value = RefLast.value

\* C1 witness: a finished hminimax0 search that took an early return and
\* found a finite value
C1_Witness ==
    /\ engine = "hminimax0" /\ Done
    /\ prunes > 0
    /\ Last.value.inf = 0

\* C2: get_action never returns None: when the search returns no move,
\* get_action returns Directions.STOP.  (Stated as claimed; the code returns
\* the None it has just appended to self.moves.)
C2_NeverReturnsNone ==
    Done => /\ Last.returned # None
            /\ (Last.move = None => Last.returned = STOP)

\* C3 as claimed: the value returned by the top-level search call is never
\* float('-inf') or float('inf').
C3_NoSentinelAtTop ==
    Done => Last.value.inf = 0

\* C3 as amended: the value of the top-level call is never float('inf'); it
\* is float('-inf') exactly when the root was expanded and the call returns
\* no move, so a call that returns a move returns a finite value.
C3_SentinelOnlyWithoutMove ==
    Done => /\ Last.value # PosInf
            /\ Last.value = NegInf <=>
                  (Last.move = None /\ ~Stops(engine, game, Last.root, 0, TRUE))

\* C3 witness: a search whose root has a successor and whose every successor
\* value was rejected: it returns float('-inf') and no move
C3_Witness ==
    /\ Done
    /\ generatePacmanSuccessors(game, Last.root) # <<>>
    /\ Last.value = NegInf /\ Last.move = None

\* C4: in the engines with a visited table, within one search: the next
\* successor of the running loop is recursed into exactly when its key is not
\* in the table or its score is strictly greater than the stored one; when
\* it is recursed into, the table holds its score for its key from the first
\* step of the recursion on; when it is not, the table is unchanged; and the
\* score stored for a key never decreases.
C4_Step ==
    (UsesVisited(engine) /\ pc = "search" /\ pc' = "search") =>
      /\ \A k \in Keys(visited) :
            k \in Keys(visited') /\ Stored(visited', k) >= Stored(visited, k)
      /\ (stack # <<>> /\ Top.pc = "loop" /\ Top.i <= Len(Successors(game, Top))) =>
            LET n == Successors(game, Top)[Top.i][1]
                k == key(game, n)
                sc == Snap(game, n).score
                fresh == \A p \in visited : p[1] # k \/ sc > p[2]
                recursed == /\ Len(stack') = Len(stack) + 1
                            /\ stack'[Len(stack')].state = n
                            /\ stack'[Len(stack')].pc = "enter"
            IN /\ fresh <=> recursed
               /\ recursed => <<k, sc>> \in visited'
               /\ ~fresh => (visited' = visited /\ Len(stack') = Len(stack))
      /\ ~(stack # <<>> /\ Top.pc = "loop") => visited' = visited

C4_VisitedTable == [][C4_Step]_vars

\* C4 witness: a successor whose key was in the table with a score at least
\* its own has just been skipped
C4_Witness ==
    /\ UsesVisited(engine) /\ pc = "search"
    /\ lastStep.op = "skip"
    /\ \E p \in visited : /\ p[1] = key(game, lastStep.state)
                           /\ p[2] >= Snap(game, lastStep.state).score

\* C5: two decisions on the same snapshot, taken with the same revisit set
\* and the same decision-start score, return the same move and value; and
\* the search leaves the revisit set and the decision-start score alone.
C5_SameDecision ==
    \A i, j \in 1..Len(history) :
        (/\ history[i].root = history[j].root
         /\ history[i].pks = history[j].pks
         /\ history[i].cs = history[j].cs)
        => /\ history[i].move = history[j].move
           /\ history[i].value = history[j].value

C5_SearchKeepsAgent ==
    (pc = "search" /\ pc' = "search") =>
        (previousKeyStates' = previousKeyStates /\ current_score' = current_score)

C5_Idempotent == [][C5_SearchKeepsAgent /\ C5_SameDecision']_vars

\* C5 witness: the second of two decisions on the same snapshot has returned
\* a move, and its search wrote to its visited table
C5_Witness ==
    /\ Done /\ Len(history) = 2
    /\ history[1].root = history[2].root
    /\ history[1].pks = history[2].pks
    /\ history[2].move # None
    /\ visited # {}

\* C6: in both heuristic engines a call at depth > 0 on a snapshot whose
\* pacman-ghost Manhattan distance is > 2 on pacman's turn, or >= 2 on the
\* ghost's turn, returns [eval_function(state), None] at once, whatever the
\* final-state flags, the ghost's direction and the food grid are, without
\* entering the loop over the successors.
C6_Step ==
    (/\ engine \in {"hminimax0", "hminimax1"}
     /\ pc = "search" /\ stack # <<>> /\ Top.pc = "enter" /\ Top.depth > 0
     /\ LET sn == Snap(game, Top.state)
            d == Abs(sn.pac[1] - sn.ghost[1]) + Abs(sn.pac[2] - sn.ghost[2])
        IN (Top.is_pacman /\ d > 2) \/ (~Top.is_pacman /\ d >= 2))
    => /\ stack' = Pop(stack)
       /\ ret' = [value |-> Fin(IF engine = "hminimax0"
                                THEN Eval0(game, Top.state, previousKeyStates, current_score)
                                ELSE Eval1(game, Top.state)),
                  action |-> None]
       /\ visited' = visited

C6_DistanceGate == [][C6_Step]_vars

\* C6 witness: a call at depth 2 on pacman's turn has just been cut off on a
\* snapshot that is not final, whose ghost stands still (no orientation
\* gate) at distance > 2
C6_Witness ==
    /\ engine = "hminimax0" /\ pc = "search"
    /\ lastStep.op = "leaf" /\ lastStep.depth > 0 /\ lastStep.is_pacman
    /\ LET sn == Snap(game, lastStep.state)
       IN /\ ~sn.win /\ ~sn.lose /\ sn.gdir = "Stop"
          /\ manhattanDistance(sn.pac, sn.ghost) > 2
    /\ ret.action = None

\* C7: at a maximiser node a successor whose returned value equals the current
\* best value never replaces the best action: the action kept, and returned
\* if the call returns at this point, is the one found first.
C7_Step ==
    (/\ pc = "search" /\ stack # <<>> /\ Top.pc = "wait" /\ Top.is_pacman
     /\ ret.value = Top.value)
    => IF Len(stack') < Len(stack)
       THEN ret'.action = Top.best_action
       ELSE stack'[Len(stack)].best_action = Top.best_action

C7_FirstFound == [][C7_Step]_vars

\* C7 witness: a maximiser that already had a best action has just received
\* an equal value from a later successor and goes on
C7_Witness ==
    /\ pc = "search" /\ stack # <<>>
    /\ lastStep.op = "resume" /\ lastStep.tie
    /\ Top.is_pacman /\ Top.i > 2
    /\ Top.best_action # None /\ Top.value.inf = 0

\* C8: self.moves never holds more than one move and is empty between
\* get_action calls and during the search; every get_action call runs one
\* search, on the snapshot it was given, and returns that search's move.
C8_Cache ==
    /\ Len(moves) <= 1
    /\ pc \in {"idle", "search"} => moves = <<>>
    /\ (pc = "search" /\ stack # <<>>) => (stack[1].state = root /\ stack[1].depth = 0)
    /\ Len(history) = calls
    /\ \A i \in 1..Len(history) :
          history[i].searched /\ history[i].returned = history[i].move

\* C8 witness: two get_action calls on different snapshots have returned
\* different moves, the second one its own search's
C8_Witness ==
    /\ Done /\ Len(history) = 2
    /\ history[1].root # history[2].root
    /\ history[1].move # None
    /\ history[2].move # history[1].move
    /\ returned = history[2].move

\* C9: in the engines with alpha-beta pruning and a visited table the move
\* chosen at the root equals the move chosen by the same search without the
\* two early returns.  (Stated as claimed; a pruned branch leaves its states
\* out of the table, a later successor with one of their keys is then
\* explored instead of skipped, and the move changes.)
C9_PruningKeepsMove ==
    (UsesVisited(engine) /\ Done) => Last.move = RefLast.action

\* C10: minimax terminates on every finite snapshot graph, cycles included:
\* the chain of open calls stays below one call per key and score, and a
\* top-level call that has started returns its move to get_action.
C10_Terminates ==
    /\ [](Len(stack) < StackLimit)
    /\ (pc = "search") ~> (pc = "pop")

\* C10 witness: minimax has finished a decision taken at snapshot 6 of a game
\* with the cycle 6 -> 3 -> 6, where no final state is reachable: the search
\* came back to the root's key and recorded it
C10_Witness ==
    /\ engine = "minimax" /\ game.form = "tree" /\ game.back
    /\ Done /\ Last.searched /\ Last.root = 6
    /\ key(game, 6) \in Keys(visited)


\* C11: in both heuristic engines cutoff(state, 0, is_pacman) is false for
\* every snapshot of the game, final states included, and either role; a call
\* at depth 0 therefore goes on to the loop over the successors and returns
\* nothing at its head.
C11_Step ==
    (engine \in {"hminimax0", "hminimax1"}) =>
        /\ \A n \in (IF game.form = "chain" THEN 0..2 ELSE Nodes), r \in BOOLEAN :
              ~Cutoff0(game, n, 0, r) /\ ~Cutoff1(game, n, 0, r)
        /\ (pc = "search" /\ stack # <<>> /\ Top.pc = "enter" /\ Top.depth = 0)
              => /\ stack' = SetTop(stack, [Top EXCEPT !.pc = "loop"])
                 /\ ret' = ret

C11_RootExpanded == [][C11_Step]_vars

\* C11 witness: the top-level call of a heuristic engine on a final state
\* (snapshot 6, won) has just passed the cutoff test and entered the loop
C11_Witness ==
    /\ engine \in {"hminimax0", "hminimax1"} /\ pc = "search"
    /\ Len(stack) = 1 /\ Top.depth = 0 /\ Top.pc = "loop" /\ Top.i = 1
    /\ lastStep.op = "expand" /\ lastStep.state = root
    /\ Snap(game, root).win


\* C12: in every engine every call of the search function is made, and every
\* loop goes on, with alpha strictly less than beta: after each step all open
\* calls have alpha < beta, and a step that skips a successor leaves alpha
\* and beta of its call as they were.
C12_Step ==
    /\ \A i \in 1..Len(stack') : Lt(stack'[i].alpha, stack'[i].beta)
    /\ lastStep'.op = "skip"
          => /\ Len(stack') = Len(stack)
             /\ stack'[Len(stack')].alpha = Top.alpha
             /\ stack'[Len(stack')].beta = Top.beta

C12_WindowOpen == [][C12_Step]_vars

\* C12 witness: a recursive call has just been made at depth >= 2 with a
\* window narrowed on both sides: alpha and beta are finite
C12_Witness ==
    /\ pc = "search" /\ stack # <<>>
    /\ lastStep.op = "recurse" /\ Top.pc = "enter" /\ Top.depth >= 2
    /\ Top.alpha.inf = 0 /\ Top.beta.inf = 0
    /\ Lt(Top.alpha, Top.beta)

====
